---- MODULE Spec2Model ----
(***************************************************************************)
(* AVFramedQueue (src/src/AVFramedQueue.cpp): a circular queue of          *)
(* pre-allocated frames with one producer and one consumer.                *)
(*                                                                         *)
(* VideoFrameQueue and AudioFrameQueue (same file) and the tail filter     *)
(* mockups of src/unitTests/FilterMockup.hh are modelled too.              *)
(*                                                                         *)
(* Three specifications of the same queue:                                 *)
(*   Spec      - the queue's methods called one after another, in any      *)
(*               order, each call running to completion;                   *)
(*   SpecSPSC  - one producer and one consumer that follow the call        *)
(*               protocol (getRear / forceGetRear, write, addFrame and     *)
(*               getFront, read, removeFrame), interleaved at the level    *)
(*               of single method calls; the loop of forceGetRear is split *)
(*               into its getRear and flush calls;                         *)
(*   FairSPSC  - SpecSPSC with both threads scheduled weakly fairly.       *)
(* and one specification each for                                         *)
(*   SpecVideo - VideoFrameQueue::createNew over all its arguments;        *)
(*   SpecAudio - AudioFrameQueue::createNew over all its arguments;        *)
(*   SpecTail  - doProcessFrame and extract of a tail filter mockup.       *)
(* Each index has a single writer thread and every method reads the other  *)
(* thread's index once, so a method call is one atomic step; accesses to   *)
(* front and rear are taken to be sequentially consistent.                 *)
(* published, delivered, dropped, flushed, badFlush, snap, quiet, stage,   *)
(* resumeAt and firstSeen record the history of a run; no action reads     *)
(* them to decide what the queue does.                                     *)
(***************************************************************************)
EXTENDS Integers, Sequences, FiniteSets, TLC

\* ---------------------------------------------------------------- bounds
MaxFrames == 4      \* largest queue capacity (maxFrames) explored
MaxSeq    == 4      \* the producer stops after writing this many frames
MaxLog    == MaxSeq + 2   \* the delivery log keeps the first MaxLog deliveries
MaxSince  == 2      \* successful doProcessFrame calls counted between extracts

NULL == 0

\* ids of the two filters a queue connects
FilterIds == {1, 2}

VARIABLES
    max,        \* AVFramedQueue::max
    front,      \* FrameQueue::front
    rear,       \* FrameQueue::rear
    frames,     \* frames[0..max): slot -> Frame object (1..max)
    connectionData, \* FrameQueue::connectionData: the filters at both ends
    seqNum,     \* Frame object -> its sequence number
    ret,        \* Spec: value returned by the last call
    lastOp,     \* Spec: name of the last call
    elemsBefore,\* Spec: getElements() before the last call
    frontBefore,\* Spec: front before the last call
    rearBefore, \* Spec: rear before the last call
    pPc,        \* producer position
    pSlot,      \* Frame the producer holds for writing (NULL: none)
    cPc,        \* consumer position
    cSlot,      \* Frame the consumer holds for reading (NULL: none)
    cSeen,      \* sequence number the consumer read from cSlot
    cPeek,      \* Frame the consumer holds from forceGetFront (NULL: none)
    nextSeq,    \* next sequence number the producer writes
    published,  \* published[k]: the Frame object frame k was written into
    delivered,  \* log of <<seq, Frame>> the consumer dequeued
    dropped,    \* sequence numbers found in the slots flush retracted
    flushed,    \* flush has run at least once
    badFlush,   \* flush has run on a queue that was not full, or on the
                \* slot the consumer was holding
    snap,       \* queue as it was when forceGetRear was last called
    quiet,      \* the consumer was idle at that call and has not stepped since
    stage,      \* progress of the frame obtained by that call
    resumeAt,   \* frames published when the consumer took its first step
    firstSeen,  \* first sequence number the consumer read (0: none yet)
    vq,         \* SpecVideo: VideoFrameQueue::createNew, arguments and result
    aq,         \* SpecAudio: AudioFrameQueue::createNew, arguments and result
    tail        \* SpecTail: a Video/AudioTailFilterMockup (oFrame, newFrame)
                \* and the record of the calls made on it

vars == <<max, front, rear, frames, connectionData, seqNum, ret, lastOp,
          elemsBefore, frontBefore, rearBefore,
          pPc, pSlot, cPc, cSlot, cSeen, cPeek, nextSeq, published,
          delivered, dropped, flushed, badFlush, snap, quiet, stage, resumeAt, firstSeen,
          vq, aq, tail>>

queueVars == <<max, frames, connectionData>>
createVars == <<vq, aq>>
tailVars == <<tail>>
procVars  == <<pPc, pSlot, cPc, cSlot, cSeen, cPeek, nextSeq, published, delivered,
               dropped, flushed, badFlush, snap, quiet, stage, resumeAt,
               firstSeen, seqNum>>

\* ------------------------------------------------------- queue methods
getRearAt_twoFree(r) ==
    IF (r + 2) % max = front THEN NULL ELSE frames[r]

\* Frame* AVFramedQueue::getRear(), with the queue's rear index at r
getRearAt(r) ==
    IF (r + 1) % max = front THEN NULL ELSE frames[r]

getRear == getRearAt(rear)

getFront_newest ==
    IF rear = front THEN NULL ELSE frames[(rear + (max - 1)) % max]

\* Frame* AVFramedQueue::getFront()
getFront ==
    IF rear = front THEN NULL ELSE frames[front]

addFrame_noWrap(r) == r + 1

addFrame_skip(r) == (r + 2) % max

\* int AVFramedQueue::addFrame(): the new value of rear (the value returned
\* is set in AddFrame)
addFrame(r) == (r + 1) % max

removeFrame_skip(f) == (f + 2) % max

\* int AVFramedQueue::removeFrame(): the new value of front (the value
\* returned is set in RemoveFrame)
removeFrame(f) == (f + 1) % max

flush_all(r) == front

flush_two(r) == (r + (max - 2)) % max

\* void AVFramedQueue::flush(): the new value of rear
flush(r) == (r + (max - 1)) % max

forceGetFront_front == frames[front]

\* Frame* AVFramedQueue::forceGetFront()
forceGetFront == frames[(front + (max - 1)) % max]

\* const unsigned AVFramedQueue::getElements()
getElements ==
    IF front > rear THEN (max - front + rear) ELSE (rear - front)

\* The loop of forceGetRear run to completion with no other thread stepping:
\* the value of rear when getRear() stops returning NULL.
RECURSIVE forceGetRearLoop(_)
forceGetRearLoop(r) ==
    IF getRearAt(r) = NULL THEN forceGetRearLoop(flush(r)) ELSE r

\* Sequence numbers held by the slots front .. rear-1, oldest first.
Contents ==
    [i \in 1..getElements |-> seqNum[frames[(front + i - 1) % max]]]

\* ------------------------------------------- VideoFrameQueue / AudioFrameQueue
\* enumerators; the last one of each set stands for any enumerator the
\* switch statements of setup() do not name
VCodecTypes == {"H264", "H265", "VP8", "RAW", "VC_OTHER"}
PixTypes == {"YUV420P", "YUV422P", "YUV444P", "RGB24", "RGBA", "P_NONE"}

\* frames[i] before setup() has stored a frame in it
NoFrame == [type |-> "none", codec |-> "none", size |-> "none",
            pixelFormat |-> "none"]

\* InterleavedVideoFrame::createNew(codec, maxLength) and
\* InterleavedVideoFrame::createNew(codec, width, height, pixelFormat)
InterleavedVideoFrame(codec, size, pixelFormat) ==
    [type |-> "InterleavedVideoFrame", codec |-> codec, size |-> size,
     pixelFormat |-> pixelFormat]

VideoSetup_needsPix(codec, pixelFormat, m) ==
    IF pixelFormat = "P_NONE" \/ codec \notin {"H264", "H265", "VP8", "RAW"}
      THEN [ok |-> FALSE, frames |-> [i \in 0..(m - 1) |-> NoFrame]]
      ELSE [ok |-> TRUE,
            frames |-> [i \in 0..(m - 1) |->
                          InterleavedVideoFrame(codec, "any", pixelFormat)]]

\* bool VideoFrameQueue::setup() on a queue of m slots: the value returned
\* and the frames it has stored
VideoSetup(codec, pixelFormat, m) ==
    CASE codec \in {"H264", "H265"} ->
           [ok |-> TRUE,
            frames |-> [i \in 0..(m - 1) |->
                InterleavedVideoFrame(codec, "MAX_H264_OR_5_NAL_SIZE", "unset")]]
      [] codec = "VP8" ->
           [ok |-> TRUE,
            frames |-> [i \in 0..(m - 1) |->
                InterleavedVideoFrame(codec, "LENGTH_VP8", "unset")]]
      [] codec = "RAW" ->
           IF pixelFormat = "P_NONE"
             THEN [ok |-> FALSE, frames |-> [i \in 0..(m - 1) |-> NoFrame]]
             ELSE [ok |-> TRUE,
                   frames |-> [i \in 0..(m - 1) |->
                       InterleavedVideoFrame(codec,
                           "DEFAULT_WIDTH x DEFAULT_HEIGHT", pixelFormat)]]
      [] OTHER ->
           [ok |-> FALSE, frames |-> [i \in 0..(m - 1) |-> NoFrame]]

\* no VideoFrameQueue object (before the call, or deleted by createNew)
NoVideoQueue == [codec |-> "none", pixelFormat |-> "none", max |-> 0,
                 frames |-> << >>, extradata |-> "unset"]

NoVideoCall == [pc |-> "none", codec |-> "none", pixelFormat |-> "none",
                ret |-> "none", q |-> NoVideoQueue]

ACodecTypes == {"OPUS", "AAC", "MP3", "PCM", "PCMU", "G711", "AC_OTHER"}
SampleFmts == {"U8", "S16", "FLT", "U8P", "S16P", "FLTP", "S_OTHER"}
SampleRates == {8000, 48000}
Channels == {1, 2}

NoAudioFrame == [type |-> "none", channels |-> 0, sampleRate |-> 0,
                 maxSamples |-> << >>, codec |-> "none",
                 sampleFormat |-> "none"]

\* AudioFrame::getMaxSamples(sampleRate): some function of the sample rate
getMaxSamples(sampleRate) == <<"getMaxSamples", sampleRate>>

\* the loop  frames[i] = <type>::createNew(channels, sampleRate,
\* AudioFrame::getMaxSamples(sampleRate), codec, sampleFormat)  over m slots
AudioFrames(type, channels, sampleRate, codec, sampleFormat, m) ==
    [i \in 0..(m - 1) |->
        [type |-> type, channels |-> channels, sampleRate |-> sampleRate,
         maxSamples |-> getMaxSamples(sampleRate), codec |-> codec,
         sampleFormat |-> sampleFormat]]

\* setup() returning false: no field written, no frame stored
AudioSetupFailed(sampleFormat, sampleRate, channels, m) ==
    [ok |-> FALSE, sampleFormat |-> sampleFormat, sampleRate |-> sampleRate,
     channels |-> channels, frames |-> [i \in 0..(m - 1) |-> NoAudioFrame]]

AudioSetup_keepChannels(codec, sampleFormat, sampleRate, channels, m) ==
    CASE codec \in {"OPUS", "AAC", "MP3"} ->
           [ok |-> TRUE, sampleFormat |-> "S16", sampleRate |-> sampleRate,
            channels |-> channels,
            frames |-> AudioFrames("InterleavedAudioFrame", channels,
                                   sampleRate, codec, "S16", m)]
      [] codec \in {"PCMU", "PCM"} ->
           IF sampleFormat \in {"U8", "S16", "FLT"}
             THEN [ok |-> TRUE, sampleFormat |-> sampleFormat,
                   sampleRate |-> sampleRate, channels |-> channels,
                   frames |-> AudioFrames("InterleavedAudioFrame", channels,
                                          sampleRate, codec, sampleFormat, m)]
             ELSE IF sampleFormat \in {"U8P", "S16P", "FLTP"}
               THEN [ok |-> TRUE, sampleFormat |-> sampleFormat,
                     sampleRate |-> sampleRate, channels |-> channels,
                     frames |-> AudioFrames("PlanarAudioFrame", channels,
                                            sampleRate, codec, sampleFormat, m)]
               ELSE AudioSetupFailed(sampleFormat, sampleRate, channels, m)
      [] codec = "G711" ->
           [ok |-> TRUE, sampleFormat |-> "U8", sampleRate |-> 8000,
            channels |-> channels,
            frames |-> AudioFrames("InterleavedAudioFrame", channels, 8000, codec,
                                   "U8", m)]
      [] OTHER -> AudioSetupFailed(sampleFormat, sampleRate, channels, m)

AudioSetup_noPlanar(codec, sampleFormat, sampleRate, channels, m) ==
    CASE codec \in {"OPUS", "AAC", "MP3"} ->
           [ok |-> TRUE, sampleFormat |-> "S16", sampleRate |-> sampleRate,
            channels |-> channels,
            frames |-> AudioFrames("InterleavedAudioFrame", channels,
                                   sampleRate, codec, "S16", m)]
      [] codec \in {"PCMU", "PCM"} ->
           IF sampleFormat \in {"U8", "S16", "FLT"}
             THEN [ok |-> TRUE, sampleFormat |-> sampleFormat,
                   sampleRate |-> sampleRate, channels |-> channels,
                   frames |-> AudioFrames("InterleavedAudioFrame", channels,
                                          sampleRate, codec, sampleFormat, m)]
             ELSE IF sampleFormat \in {"U8P", "S16P", "FLTP"}
               THEN [ok |-> TRUE, sampleFormat |-> sampleFormat,
                     sampleRate |-> sampleRate, channels |-> channels,
                     frames |-> AudioFrames("InterleavedAudioFrame", channels,
                                            sampleRate, codec, sampleFormat, m)]
               ELSE AudioSetupFailed(sampleFormat, sampleRate, channels, m)
      [] codec = "G711" ->
           [ok |-> TRUE, sampleFormat |-> "U8", sampleRate |-> 8000,
            channels |-> 1,
            frames |-> AudioFrames("InterleavedAudioFrame", 1, 8000, codec,
                                   "U8", m)]
      [] OTHER -> AudioSetupFailed(sampleFormat, sampleRate, channels, m)

\* bool AudioFrameQueue::setup() on a queue of m slots: the value returned,
\* the fields sampleFormat, sampleRate and channels as setup leaves them and
\* the frames it has stored
AudioSetup(codec, sampleFormat, sampleRate, channels, m) ==
    CASE codec \in {"OPUS", "AAC", "MP3"} ->
           [ok |-> TRUE, sampleFormat |-> "S16", sampleRate |-> sampleRate,
            channels |-> channels,
            frames |-> AudioFrames("InterleavedAudioFrame", channels,
                                   sampleRate, codec, "S16", m)]
      [] codec \in {"PCMU", "PCM"} ->
           IF sampleFormat \in {"U8", "S16", "FLT"}
             THEN [ok |-> TRUE, sampleFormat |-> sampleFormat,
                   sampleRate |-> sampleRate, channels |-> channels,
                   frames |-> AudioFrames("InterleavedAudioFrame", channels,
                                          sampleRate, codec, sampleFormat, m)]
             ELSE IF sampleFormat \in {"U8P", "S16P", "FLTP"}
               THEN [ok |-> TRUE, sampleFormat |-> sampleFormat,
                     sampleRate |-> sampleRate, channels |-> channels,
                     frames |-> AudioFrames("PlanarAudioFrame", channels,
                                            sampleRate, codec, sampleFormat, m)]
               ELSE AudioSetupFailed(sampleFormat, sampleRate, channels, m)
      [] codec = "G711" ->
           [ok |-> TRUE, sampleFormat |-> "U8", sampleRate |-> 8000,
            channels |-> 1,
            frames |-> AudioFrames("InterleavedAudioFrame", 1, 8000, codec,
                                   "U8", m)]
      [] OTHER -> AudioSetupFailed(sampleFormat, sampleRate, channels, m)

\* no AudioFrameQueue object (before the call, or deleted by createNew)
NoAudioQueue == [codec |-> "none", sampleFormat |-> "none", sampleRate |-> 0,
                 channels |-> 0, max |-> 0, frames |-> << >>,
                 extradata |-> "unset"]

NoAudioCall == [pc |-> "none", codec |-> "none", sFmt |-> "none",
                sampleRate |-> 0, channels |-> 0, ret |-> "none",
                q |-> NoAudioQueue]

\* ------------------------------- VideoTailFilterMockup / AudioTailFilterMockup
\* concrete classes of the Frame handed to doProcessFrame
FrameTypes == {"InterleavedVideoFrame", "PlanarAudioFrame", "Frame"}

\* the class doProcessFrame casts its input to
CastTarget(kind) ==
    IF kind = "video" THEN "InterleavedVideoFrame" ELSE "PlanarAudioFrame"

\* the tail filter as its constructor leaves it: oFrame(NULL),
\* newFrame(false).  oFrame is NULL or 1 (the one frame the filter creates),
\* oSeq the sequence number stored in it.  last, pRet, xRet, xSeq, since,
\* xSince and lastOk record the calls: the last call, what doProcessFrame and
\* extract returned, the sequence number of the frame extract returned, the
\* successful doProcessFrame calls since the previous extract (now, and when
\* the last extract ran) and the sequence number of the latest success.
NewTail(kind) ==
    [kind |-> kind, oFrame |-> NULL, oSeq |-> 0, newFrame |-> FALSE,
     last |-> "none", pRet |-> FALSE, xRet |-> NULL, xSeq |-> 0,
     since |-> 0, xSince |-> 0, lastOk |-> 0]

NoTail == NewTail("none")

\* ------------------------------------------------------------------ Init
\* AVFramedQueue(cData, maxFrames) followed by AVFramedQueueMock::config():
\* slot i holds the Frame created by FrameMock::createNew(i+1).
InitQueue ==
    /\ max \in 2..MaxFrames
    /\ front = 0
    /\ rear = 0
    /\ frames = [i \in 0..(max - 1) |-> i + 1]
    /\ connectionData \in
           {c \in [wFilterId : FilterIds, rFilterId : FilterIds] :
                c.wFilterId # c.rFilterId}
    /\ seqNum = [p \in 1..max |-> p]
    /\ ret = NULL
    /\ lastOp = "none"
    /\ elemsBefore = 0
    /\ frontBefore = 0
    /\ rearBefore = 0
    /\ pPc = "idle"
    /\ pSlot = NULL
    /\ cPc = "idle"
    /\ cSlot = NULL
    /\ cSeen = 0
    /\ cPeek = NULL
    /\ nextSeq = 1
    /\ published = << >>
    /\ delivered = << >>
    /\ dropped = {}
    /\ flushed = FALSE
    /\ badFlush = FALSE
    /\ snap = [front |-> 0, rear |-> 0, full |-> FALSE, contents |-> << >>]
    /\ quiet = FALSE
    /\ stage = "none"
    /\ resumeAt = -1
    /\ firstSeen = 0

Init ==
    /\ InitQueue
    /\ vq = NoVideoCall
    /\ aq = NoAudioCall
    /\ tail = NoTail

\* ------------------------------------------- Spec: calls in any order
Called(op) ==
    /\ lastOp' = op
    /\ elemsBefore' = getElements
    /\ frontBefore' = front
    /\ rearBefore' = rear
    /\ UNCHANGED queueVars
    /\ UNCHANGED procVars
    /\ UNCHANGED createVars
    /\ UNCHANGED tailVars

GetRear ==
    /\ ret' = getRear
    /\ UNCHANGED <<front, rear>>
    /\ Called("getRear")

GetFront_consuming ==
    /\ ret' = getFront
    /\ front' = IF getFront # NULL THEN removeFrame(front) ELSE front
    /\ UNCHANGED rear
    /\ Called("getFront")

GetFront ==
    /\ ret' = getFront
    /\ UNCHANGED <<front, rear>>
    /\ Called("getFront")

AddFrame ==
    /\ rear' = addFrame(rear)
    /\ ret' = connectionData.rFilterId
    /\ UNCHANGED front
    /\ Called("addFrame")

RemoveFrame ==
    /\ front' = removeFrame(front)
    /\ ret' = connectionData.wFilterId
    /\ UNCHANGED rear
    /\ Called("removeFrame")

Flush ==
    /\ rear' = flush(rear)
    /\ UNCHANGED <<front, ret>>
    /\ Called("flush")

ForceGetRear ==
    /\ rear' = forceGetRearLoop(rear)
    /\ ret' = getRearAt(forceGetRearLoop(rear))
    /\ UNCHANGED front
    /\ Called("forceGetRear")

ForceGetFront ==
    /\ ret' = forceGetFront
    /\ UNCHANGED <<front, rear>>
    /\ Called("forceGetFront")

GetElements ==
    /\ ret' = getElements
    /\ UNCHANGED <<front, rear>>
    /\ Called("getElements")

Next ==
    \/ GetRear
    \/ GetFront
    \/ AddFrame
    \/ RemoveFrame
    \/ Flush
    \/ ForceGetRear
    \/ ForceGetFront
    \/ GetElements

Spec == Init /\ [][Next]_vars

\* C1: in every state reached from the empty queue by any sequence of calls,
\* front and rear lie in [0, max), getElements() equals (rear - front) mod max
\* and getElements() is at most max - 1.
C1_IndicesAndCount ==
    /\ front \in 0..(max - 1)
    /\ rear \in 0..(max - 1)
    /\ getElements = (rear - front) % max
    /\ getElements <= max - 1

\* a wrapped queue (front > rear) that flush has just made look full
C1_Witness ==
    /\ lastOp = "flush"
    /\ front > rear
    /\ getElements = max - 1
    /\ max >= 3

\* C6: forceGetRear called on a full queue (getElements() = max - 1), the call
\* running with no other call in between, returns a slot and leaves
\* getElements() exactly one less than before.
C6_DropOneWhenFull ==
    (lastOp = "forceGetRear" /\ elemsBefore = max - 1)
        => (ret # NULL /\ getElements = elemsBefore - 1)

C6_Witness ==
    /\ lastOp = "forceGetRear"
    /\ elemsBefore = max - 1
    /\ max = 4
    /\ getElements = 2

\* ------------------------------ SpecSPSC: one producer, one consumer
apiUnchanged ==
    /\ UNCHANGED <<ret, lastOp, elemsBefore, frontBefore, rearBefore>>
    /\ UNCHANGED createVars
    /\ UNCHANGED tailVars

consumerVars == <<cPc, cSlot, cSeen, cPeek, delivered, resumeAt, firstSeen>>
producerVars == <<pPc, pSlot, nextSeq, published, dropped, flushed, badFlush,
                  snap, stage>>

\* The delivery log keeps the first MaxLog deliveries.
Log(log, e) == IF Len(log) < MaxLog THEN Append(log, e) ELSE log

\* Producer: frame = getRear(); a NULL result leaves it with a full queue.
P_GetRear ==
    /\ pPc = "idle"
    /\ IF getRear # NULL
         THEN /\ pSlot' = getRear
              /\ pPc' = "write"
         ELSE /\ pSlot' = NULL
              /\ pPc' = "full"
    /\ stage' = "none"
    /\ UNCHANGED <<front, rear, seqNum, nextSeq, published, dropped, flushed,
                   badFlush, snap, quiet>>
    /\ UNCHANGED queueVars /\ UNCHANGED consumerVars /\ apiUnchanged

\* Producer: the queue was full and the producer waits for the next cycle.
P_Retry ==
    /\ pPc = "full"
    /\ pPc' = "idle"
    /\ UNCHANGED <<front, rear, seqNum, pSlot, nextSeq, published, dropped,
                   flushed, badFlush, snap, quiet, stage>>
    /\ UNCHANGED queueVars /\ UNCHANGED consumerVars /\ apiUnchanged

\* Producer: the queue was full and the producer calls forceGetRear().
P_CallForce ==
    /\ pPc = "full"
    /\ pPc' = "fgr_check"
    /\ snap' = [front |-> front, rear |-> rear,
                full |-> ((rear + 1) % max = front), contents |-> Contents]
    /\ quiet' = (cPc = "idle")
    /\ stage' = "in"
    /\ UNCHANGED <<front, rear, seqNum, pSlot, nextSeq, published, dropped,
                   flushed, badFlush>>
    /\ UNCHANGED queueVars /\ UNCHANGED consumerVars /\ apiUnchanged

\* forceGetRear: while ((frame = getRear()) == NULL)
P_ForceCheck ==
    /\ pPc = "fgr_check"
    /\ IF getRear = NULL
         THEN /\ pPc' = "fgr_flush"
              /\ UNCHANGED <<pSlot, stage>>
         ELSE /\ pSlot' = getRear
              /\ pPc' = "write"
              /\ stage' = "got"
    /\ UNCHANGED <<front, rear, seqNum, nextSeq, published, dropped, flushed,
                   badFlush, snap, quiet>>
    /\ UNCHANGED queueVars /\ UNCHANGED consumerVars /\ apiUnchanged

\* forceGetRear: debugMsg("Frame discarted by AVFramedQueue"); flush();
P_ForceFlush ==
    /\ pPc = "fgr_flush"
    /\ rear' = flush(rear)
    /\ pPc' = "fgr_check"
    /\ flushed' = TRUE
    /\ dropped' = dropped \cup {seqNum[frames[flush(rear)]]}
    /\ badFlush' = (badFlush \/ (rear + 1) % max # front
                             \/ cSlot = frames[flush(rear)])
    /\ UNCHANGED <<front, seqNum, pSlot, nextSeq, published, snap, quiet, stage>>
    /\ UNCHANGED queueVars /\ UNCHANGED consumerVars /\ apiUnchanged

\* Producer: writes the next sequence number into the slot it holds.
P_Write ==
    /\ pPc = "write"
    /\ nextSeq <= MaxSeq
    /\ seqNum' = [seqNum EXCEPT ![pSlot] = nextSeq]
    /\ nextSeq' = nextSeq + 1
    /\ pPc' = "add"
    /\ stage' = IF stage = "got" THEN "wrote" ELSE "none"
    /\ UNCHANGED <<front, rear, pSlot, published, dropped, flushed, badFlush,
                   snap, quiet>>
    /\ UNCHANGED queueVars /\ UNCHANGED consumerVars /\ apiUnchanged

\* Producer: addFrame() publishes the slot.
P_AddFrame ==
    /\ pPc = "add"
    /\ rear' = addFrame(rear)
    /\ published' = Append(published, pSlot)
    /\ pSlot' = NULL
    /\ pPc' = "idle"
    /\ stage' = IF stage = "wrote" THEN "added" ELSE "none"
    /\ UNCHANGED <<front, seqNum, nextSeq, dropped, flushed, badFlush, snap,
                   quiet>>
    /\ UNCHANGED queueVars /\ UNCHANGED consumerVars /\ apiUnchanged

ConsumerStepped ==
    /\ quiet' = FALSE
    /\ resumeAt' = IF resumeAt = -1 THEN Len(published) ELSE resumeAt

\* Consumer: frame = getFront(); NULL means "not ready, retry".
C_GetFront ==
    /\ cPc = "idle"
    /\ IF getFront # NULL
         THEN /\ cSlot' = getFront
              /\ cPc' = "read"
         ELSE UNCHANGED <<cSlot, cPc>>
    /\ ConsumerStepped
    /\ UNCHANGED <<front, rear, seqNum, cSeen, cPeek, delivered, firstSeen>>
    /\ UNCHANGED queueVars /\ UNCHANGED producerVars /\ apiUnchanged

\* Consumer: reads the sequence number of the frame it holds.
C_Read ==
    /\ cPc = "read"
    /\ cSeen' = seqNum[cSlot]
    /\ firstSeen' = IF firstSeen = 0 THEN seqNum[cSlot] ELSE firstSeen
    /\ cPc' = "remove"
    /\ ConsumerStepped
    /\ UNCHANGED <<front, rear, seqNum, cSlot, cPeek, delivered>>
    /\ UNCHANGED queueVars /\ UNCHANGED producerVars /\ apiUnchanged

\* Consumer: removeFrame() releases the slot.
C_RemoveFrame ==
    /\ cPc = "remove"
    /\ front' = removeFrame(front)
    /\ delivered' = Log(delivered, <<cSeen, cSlot>>)
    /\ cSlot' = NULL
    /\ cPc' = "idle"
    /\ ConsumerStepped
    /\ UNCHANGED <<rear, seqNum, cSeen, cPeek, firstSeen>>
    /\ UNCHANGED queueVars /\ UNCHANGED producerVars /\ apiUnchanged

\* Consumer: frame = forceGetFront(), taken instead of getFront(); the
\* consumer holds the returned slot until it lets go of it.
C_ForceGetFront ==
    /\ cPc = "idle"
    /\ cPeek' = forceGetFront
    /\ cPc' = "peek"
    /\ ConsumerStepped
    /\ UNCHANGED <<front, rear, seqNum, cSlot, cSeen, delivered, firstSeen>>
    /\ UNCHANGED queueVars /\ UNCHANGED producerVars /\ apiUnchanged

\* Consumer: done with the slot forceGetFront returned; no removeFrame().
C_Release ==
    /\ cPc = "peek"
    /\ cPeek' = NULL
    /\ cPc' = "idle"
    /\ ConsumerStepped
    /\ UNCHANGED <<front, rear, seqNum, cSlot, cSeen, delivered, firstSeen>>
    /\ UNCHANGED queueVars /\ UNCHANGED producerVars /\ apiUnchanged

Producer ==
    \/ P_GetRear
    \/ P_Retry
    \/ P_CallForce
    \/ P_ForceCheck
    \/ P_ForceFlush
    \/ P_Write
    \/ P_AddFrame

Consumer ==
    \/ C_GetFront
    \/ C_Read
    \/ C_RemoveFrame
    \/ C_ForceGetFront
    \/ C_Release

NextSPSC == Producer \/ Consumer

SpecSPSC == Init /\ [][NextSPSC]_vars

\* Both threads keep being scheduled.
FairSPSC == SpecSPSC /\ WF_vars(Producer) /\ WF_vars(Consumer)

\* ------------------------------------------------ claims under SpecSPSC
\* Sequence numbers of the published frames that no flush retracted,
\* in publication order (frame k carries sequence number k).
Survivors ==
    SelectSeq([k \in 1..Len(published) |-> k], LAMBDA s : s \notin dropped)

DeliveredSeqs == [k \in 1..Len(delivered) |-> delivered[k][1]]

\* C2: as long as forceGetRear has discarded nothing, the k-th frame the
\* consumer dequeues (getFront, removeFrame) is the k-th frame published,
\* in every interleaving.
C2_Fifo ==
    ~flushed =>
        /\ Len(delivered) <= Len(published)
        /\ \A k \in 1..Len(delivered) : delivered[k] = <<k, published[k]>>

\* all frames delivered in order through a queue that wrapped around
C2_Witness ==
    /\ ~flushed
    /\ max = 3
    /\ DeliveredSeqs = <<1, 2, 3, 4>>

\* C3: every frame the consumer dequeues was published, is the frame that was
\* written into the slot it is read from, and is dequeued once and in
\* publication order.
C3_ExactlyOnceInOrder ==
    /\ \A k \in 1..Len(delivered) :
          /\ delivered[k][1] \in 1..Len(published)
          /\ delivered[k][2] = published[delivered[k][1]]
    /\ \A i, j \in 1..Len(delivered) :
          i < j => delivered[i][1] < delivered[j][1]

\* C4: the slot the producer holds for writing is never the slot the
\* consumer holds for reading.
C4_ExclusiveSlot ==
    (pSlot # NULL /\ cSlot # NULL) => pSlot # cSlot

\* C5: getRear returns NULL exactly when (rear+1) mod max = front and getFront
\* returns NULL exactly when front = rear; with addFrame only after a
\* non-NULL getRear and removeFrame only after a non-NULL getFront, getRear
\* is NULL exactly when max-1 frames are published and not yet removed
\* (so max-1 frames fit, and one removeFrame makes room again).
C5_Capacity ==
    ~flushed =>
        LET n == Len(published) - Len(delivered) IN
        /\ n \in 0..(max - 1)
        /\ (getRear = NULL) <=> ((rear + 1) % max = front)
        /\ (getFront = NULL) <=> (front = rear)
        /\ (getRear = NULL) <=> (n = max - 1)
        /\ (getFront = NULL) <=> (n = 0)

\* the producer found the queue full after max-1 frames, and one removeFrame
\* later getRear returns a slot again
C5_Witness ==
    /\ ~flushed
    /\ max = 4
    /\ pPc = "full"
    /\ Len(published) = max - 1
    /\ Len(delivered) = 1
    /\ getRear # NULL

\* C7: forceGetRear called on a full queue while the consumer is idle
\* discards only the newest frame: front is unchanged, the older frames stay
\* in order, the slot returned is the one that held the newest frame, and
\* after write and addFrame the queue holds the older frames followed by the
\* new one; the consumer dequeues the frames that were not discarded in
\* publication order.
C7_DropNewestKeepsOldest ==
    /\ (snap.full /\ quiet /\ stage = "got") =>
          /\ front = snap.front
          /\ Contents = SubSeq(snap.contents, 1, max - 2)
          /\ pSlot = frames[(snap.rear + max - 1) % max]
          /\ seqNum[pSlot] = snap.contents[max - 1]
    /\ (snap.full /\ quiet /\ stage = "added") =>
          /\ front = snap.front
          /\ Contents = Append(SubSeq(snap.contents, 1, max - 2), nextSeq - 1)
    /\ ~badFlush =>
          /\ Len(delivered) <= Len(Survivors)
          /\ DeliveredSeqs = SubSeq(Survivors, 1, Len(delivered))

\* scenario S2: max = 4, frames 1,2,3 fill the queue, frame 3 is discarded,
\* frame 4 is published, and the consumer dequeues 1, 2, 4
C7_Witness ==
    /\ ~badFlush
    /\ max = 4
    /\ snap.full
    /\ snap.contents = <<1, 2, 3>>
    /\ dropped = {3}
    /\ DeliveredSeqs = <<1, 2, 4>>

\* C8: a call of forceGetRear returns: the producer does not stay in the
\* loop of forceGetRear forever.
C8_ForceGetRearReturns ==
    (pPc \in {"fgr_check", "fgr_flush"}) ~> (pPc = "write")

\* C9 as claimed: after P > max-1 frames were published with the consumer
\* paused, the first sequence number the consumer reads is >= P - (max-1).
C9_FirstSeenAtLeast ==
    (firstSeen # 0 /\ resumeAt > max - 1) => firstSeen >= resumeAt - (max - 1)

\* C9 amended: after P > max-1 frames were published with the consumer
\* paused, the first sequence number the consumer reads is that of the oldest
\* frame left in the queue: 1 when max >= 3, and at least P when max = 2.
C9_FirstSeenIsOldest ==
    (firstSeen # 0 /\ resumeAt > max - 1) =>
        IF max >= 3 THEN firstSeen = 1 ELSE firstSeen >= resumeAt

C9_Witness ==
    /\ max = 3
    /\ resumeAt = 4
    /\ firstSeen = 1

\* C10: no queue operation changes the slot-to-Frame mapping set up at
\* construction, and the Frame the consumer gets from getFront for a
\* published frame is the very Frame object the producer got from getRear or
\* forceGetRear when it wrote that frame.
C10_SlotIdentity ==
    /\ frames = [i \in 0..(max - 1) |-> i + 1]
    /\ ~badFlush =>
          \A k \in 1..Len(delivered) :
              /\ delivered[k][1] \in 1..Len(published)
              /\ delivered[k][2] = published[delivered[k][1]]

\* a frame written into a slot obtained from forceGetRear after a discard
\* has been dequeued from that same Frame object
C10_Witness ==
    /\ ~badFlush
    /\ flushed
    /\ max = 3
    /\ Len(delivered) = 2
    /\ delivered[2][1] = 3
    /\ delivered[2][2] = published[3]

\* C11: forceGetFront changes neither index and returns the slot at
\* (front + max - 1) mod max; whenever at least one frame has been published
\* and every published frame has been consumed, that slot is the one of the
\* frame most recently delivered to the consumer.
C11_ForceGetFrontLast ==
    [][(cPc = "idle" /\ cPc' = "peek") =>
          /\ front' = front
          /\ rear' = rear
          /\ frames' = frames
          /\ cPeek' = frames[(front + (max - 1)) % max]
          /\ (Len(published) >= 1 /\ Len(delivered) = Len(published))
                => cPeek' = delivered[Len(delivered)][2]]_vars

\* after three frames through a queue of three slots (the indices have
\* wrapped) forceGetFront hands back the slot of frame 3
C11_Witness ==
    /\ cPc = "peek"
    /\ max = 3
    /\ Len(published) = 3
    /\ DeliveredSeqs = <<1, 2, 3>>
    /\ front = 0
    /\ cPeek = delivered[3][2]

\* C12 as claimed: addFrame advances rear by exactly 1 mod max and returns the
\* id of the producing (writer) filter of the queue's ConnectionData.
C12_AddFrameReturnsWriter ==
    lastOp = "addFrame" =>
        /\ rear = (rearBefore + 1) % max
        /\ ret = connectionData.wFilterId

\* C12 amended: addFrame advances rear by exactly 1 mod max, leaves front
\* alone and returns connectionData.rFilterId, the id of the filter at the
\* reading end of the queue.
C12_AddFrameReturnsReader ==
    lastOp = "addFrame" =>
        /\ rear = (rearBefore + 1) % max
        /\ front = frontBefore
        /\ ret = connectionData.rFilterId

\* addFrame wrapping rear from max - 1 to 0
C12_Witness ==
    /\ lastOp = "addFrame"
    /\ max = 4
    /\ rearBefore = max - 1
    /\ rear = 0
    /\ ret = connectionData.rFilterId
    /\ ret # connectionData.wFilterId

\* C13 as claimed: removeFrame advances front by exactly 1 mod max and
\* returns the id of the reader (the consuming end) of the ConnectionData.
C13_RemoveFrameReturnsReader ==
    lastOp = "removeFrame" =>
        /\ front = (frontBefore + 1) % max
        /\ ret = connectionData.rFilterId

\* C13 amended: removeFrame advances front by exactly 1 mod max, leaves rear
\* alone and returns connectionData.wFilterId, the id of the filter at the
\* writing end of the queue.
C13_RemoveFrameReturnsWriter ==
    lastOp = "removeFrame" =>
        /\ front = (frontBefore + 1) % max
        /\ rear = rearBefore
        /\ ret = connectionData.wFilterId

\* removeFrame wrapping front from max - 1 to 0
C13_Witness ==
    /\ lastOp = "removeFrame"
    /\ max = 4
    /\ frontBefore = max - 1
    /\ front = 0
    /\ ret = connectionData.wFilterId
    /\ ret # connectionData.rFilterId

\* ------------------------- SpecVideo: VideoFrameQueue::createNew called once
\* the arguments of the call; maxFrames is max
InitVideo ==
    /\ InitQueue
    /\ aq = NoAudioCall
    /\ tail = NoTail
    /\ \E c \in VCodecTypes, pf \in PixTypes :
          vq = [pc |-> "call", codec |-> c, pixelFormat |-> pf,
                ret |-> "none", q |-> NoVideoQueue]

\* VideoFrameQueue::createNew: construct, setup(), then either delete the
\* queue and return NULL or store extradata and return the queue
V_CreateNew ==
    /\ vq.pc = "call"
    /\ LET s == VideoSetup(vq.codec, vq.pixelFormat, max)
       IN  vq' = IF s.ok
                   THEN [vq EXCEPT !.pc = "done", !.ret = "q",
                                   !.q = [codec |-> vq.codec,
                                          pixelFormat |-> vq.pixelFormat,
                                          max |-> max,
                                          frames |-> s.frames,
                                          extradata |-> "extradata"]]
                   ELSE [vq EXCEPT !.pc = "done", !.ret = "NULL",
                                   !.q = NoVideoQueue]
    /\ UNCHANGED <<front, rear, aq, tail>>
    /\ UNCHANGED queueVars /\ UNCHANGED procVars
    /\ UNCHANGED <<ret, lastOp, elemsBefore, frontBefore, rearBefore>>

NextVideo == V_CreateNew

SpecVideo == InitVideo /\ [][NextVideo]_vars

\* C14: VideoFrameQueue::createNew returns NULL exactly when the codec is not
\* one of H264, H265, VP8, RAW or the codec is RAW with pixel format P_NONE;
\* otherwise it returns a queue of max slots, every slot holding a frame; for
\* H264, H265 and VP8 the result is the same for every pixel format.
C14_VideoCreateNew ==
    vq.pc = "done" =>
        /\ vq.ret = "NULL" <=>
              \/ vq.codec \notin {"H264", "H265", "VP8", "RAW"}
              \/ (vq.codec = "RAW" /\ vq.pixelFormat = "P_NONE")
        /\ vq.ret # "NULL" =>
              /\ vq.ret = "q"
              /\ vq.q.max = max
              /\ DOMAIN vq.q.frames = 0..(max - 1)
              /\ \A i \in 0..(max - 1) :
                    /\ vq.q.frames[i] # NoFrame
                    /\ vq.q.frames[i].type = "InterleavedVideoFrame"
                    /\ vq.q.frames[i].codec = vq.codec
        /\ vq.codec \in {"H264", "H265", "VP8"} =>
              /\ vq.ret = "q"
              /\ \A pf \in PixTypes :
                    VideoSetup(vq.codec, pf, max).frames = vq.q.frames

\* H264 asked for with no pixel format: a queue of four frames comes back
C14_Witness ==
    /\ vq.pc = "done"
    /\ vq.codec = "H264"
    /\ vq.pixelFormat = "P_NONE"
    /\ vq.ret = "q"
    /\ max = 4
    /\ vq.q.frames[3].size = "MAX_H264_OR_5_NAL_SIZE"

\* ------------------------- SpecAudio: AudioFrameQueue::createNew called once
\* the arguments of the call; maxFrames is max
InitAudio ==
    /\ InitQueue
    /\ vq = NoVideoCall
    /\ tail = NoTail
    /\ \E c \in ACodecTypes, f \in SampleFmts, sr \in SampleRates,
          ch \in Channels :
          aq = [pc |-> "call", codec |-> c, sFmt |-> f, sampleRate |-> sr,
                channels |-> ch, ret |-> "none", q |-> NoAudioQueue]

\* AudioFrameQueue::createNew: construct, setup(), then either delete the
\* queue and return NULL or store extradata and return the queue
A_CreateNew ==
    /\ aq.pc = "call"
    /\ LET s == AudioSetup(aq.codec, aq.sFmt, aq.sampleRate, aq.channels, max)
       IN  aq' = IF s.ok
                   THEN [aq EXCEPT !.pc = "done", !.ret = "q",
                                   !.q = [codec |-> aq.codec,
                                          sampleFormat |-> s.sampleFormat,
                                          sampleRate |-> s.sampleRate,
                                          channels |-> s.channels,
                                          max |-> max,
                                          frames |-> s.frames,
                                          extradata |-> "extradata"]]
                   ELSE [aq EXCEPT !.pc = "done", !.ret = "NULL",
                                   !.q = NoAudioQueue]
    /\ UNCHANGED <<front, rear, vq, tail>>
    /\ UNCHANGED queueVars /\ UNCHANGED procVars
    /\ UNCHANGED <<ret, lastOp, elemsBefore, frontBefore, rearBefore>>

NextAudio == A_CreateNew

SpecAudio == InitAudio /\ [][NextAudio]_vars

\* every slot of the queue createNew returned holds a frame of the given
\* type made with the queue's own channels, sampleRate and sampleFormat
AudioSlotsAre(type) ==
    /\ aq.q.max = max
    /\ DOMAIN aq.q.frames = 0..(max - 1)
    /\ \A i \in 0..(max - 1) :
          /\ aq.q.frames[i].type = type
          /\ aq.q.frames[i].codec = aq.codec
          /\ aq.q.frames[i].channels = aq.q.channels
          /\ aq.q.frames[i].sampleRate = aq.q.sampleRate
          /\ aq.q.frames[i].sampleFormat = aq.q.sampleFormat

\* C15: with codec OPUS, AAC or MP3 the setup succeeds for every requested
\* sample format and leaves sampleFormat = S16, channels and sampleRate as
\* requested; with codec G711 it succeeds for every requested configuration
\* and leaves channels = 1, sampleRate = 8000 and sampleFormat = U8.
C15_AudioForcedFormats ==
    aq.pc = "done" =>
        /\ aq.codec \in {"OPUS", "AAC", "MP3"} =>
              /\ aq.ret = "q"
              /\ aq.q.sampleFormat = "S16"
              /\ aq.q.channels = aq.channels
              /\ aq.q.sampleRate = aq.sampleRate
              /\ AudioSlotsAre("InterleavedAudioFrame")
        /\ aq.codec = "G711" =>
              /\ aq.ret = "q"
              /\ aq.q.channels = 1
              /\ aq.q.sampleRate = 8000
              /\ aq.q.sampleFormat = "U8"
              /\ AudioSlotsAre("InterleavedAudioFrame")

\* G711 asked for as stereo, 48 kHz, planar float: mono 8 kHz U8 comes back
C15_Witness ==
    /\ aq.pc = "done"
    /\ aq.codec = "G711"
    /\ aq.channels = 2 /\ aq.sampleRate = 48000 /\ aq.sFmt = "FLTP"
    /\ aq.ret = "q"
    /\ aq.q.channels = 1 /\ aq.q.sampleRate = 8000
    /\ aq.q.sampleFormat = "U8"

\* C16: with codec PCM or PCMU createNew returns a queue iff the sample
\* format is U8, S16 or FLT (the slots then hold interleaved frames) or U8P,
\* S16P or FLTP (planar frames), and the queue keeps the requested sample
\* format, channels and sample rate; for any other sample format, and for
\* any codec outside OPUS, AAC, MP3, PCM, PCMU, G711, it returns NULL.
C16_AudioPcmFormats ==
    aq.pc = "done" =>
        /\ aq.codec \in {"PCM", "PCMU"} =>
              /\ aq.ret = "q" <=>
                    aq.sFmt \in {"U8", "S16", "FLT", "U8P", "S16P", "FLTP"}
              /\ aq.ret # "q" => aq.ret = "NULL"
              /\ aq.ret = "q" =>
                    /\ aq.q.sampleFormat = aq.sFmt
                    /\ aq.q.channels = aq.channels
                    /\ aq.q.sampleRate = aq.sampleRate
                    /\ aq.sFmt \in {"U8", "S16", "FLT"} =>
                          AudioSlotsAre("InterleavedAudioFrame")
                    /\ aq.sFmt \in {"U8P", "S16P", "FLTP"} =>
                          AudioSlotsAre("PlanarAudioFrame")
        /\ aq.codec \notin {"OPUS", "AAC", "MP3", "PCM", "PCMU", "G711"} =>
              aq.ret = "NULL"

\* PCM, planar 16 bit, stereo: a queue of planar frames
C16_Witness ==
    /\ aq.pc = "done"
    /\ aq.codec = "PCM"
    /\ aq.sFmt = "S16P" /\ aq.channels = 2
    /\ aq.ret = "q"
    /\ max = 3
    /\ aq.q.frames[2].type = "PlanarAudioFrame"
    /\ aq.q.frames[2].sampleFormat = "S16P"

\* C17: index ownership.  getRear, getFront, forceGetFront and getElements
\* change neither index; addFrame, flush and forceGetRear never change
\* front; removeFrame never changes rear; front changes only in removeFrame
\* and rear only in addFrame, flush and forceGetRear, of which only addFrame
\* moves it forward (in a queue of two slots one step back and one step
\* forward are the same index, so forward is told from back for max >= 3).
C17_IndexOwnership ==
    /\ lastOp \in {"getRear", "getFront", "forceGetFront", "getElements"}
          => (front = frontBefore /\ rear = rearBefore)
    /\ lastOp \in {"addFrame", "flush", "forceGetRear"}
          => front = frontBefore
    /\ lastOp = "removeFrame" => rear = rearBefore
    /\ front # frontBefore =>
          (lastOp = "removeFrame" /\ front = (frontBefore + 1) % max)
    /\ rear # rearBefore => lastOp \in {"addFrame", "flush", "forceGetRear"}
    /\ (max >= 3 /\ rear = (rearBefore + 1) % max) => lastOp = "addFrame"

\* forceGetRear has just moved rear on a queue whose front is not 0
C17_Witness ==
    /\ lastOp = "forceGetRear"
    /\ rear # rearBefore
    /\ front = frontBefore
    /\ front = 2
    /\ max = 4

\* C18: whenever flush (called by forceGetRear) moves rear back by one, the
\* queue holds at least one unread frame at that moment (front # rear), so
\* rear does not move behind front and getElements() does not grow.
C18_FlushRetractsUnread ==
    [][(pPc = "fgr_flush" /\ pPc' = "fgr_check") =>
          /\ front # rear
          /\ getElements' <= getElements]_vars

\* C19: the slot forceGetFront returned to the consumer is never the slot the
\* producer holds for writing (returned non-NULL by getRear or forceGetRear
\* and not yet published by addFrame).
C19_ForceGetFrontNoAlias ==
    (cPeek # NULL /\ pSlot # NULL) => cPeek # pSlot

\* the same, for runs in which every flush found the queue full and did not
\* retract the slot the consumer was reading
C19_NoAliasWithoutRace ==
    (~badFlush /\ cPeek # NULL /\ pSlot # NULL) => cPeek # pSlot

\* ------------------- SpecTail: doProcessFrame and extract called in any order
InitTail ==
    /\ InitQueue
    /\ vq = NoVideoCall
    /\ aq = NoAudioCall
    /\ \E k \in {"video", "audio"} : tail = NewTail(k)

tailRest ==
    /\ UNCHANGED <<front, rear, vq, aq>>
    /\ UNCHANGED queueVars /\ UNCHANGED procVars
    /\ UNCHANGED <<ret, lastOp, elemsBefore, frontBefore, rearBefore>>

\* doProcessFrame(orgFrames) with a first frame of class ty carrying sequence
\* number sn: if the dynamic_cast succeeds, oFrame is created when there is
\* none, the frame is copied into it and newFrame is set
T_DoProcessFrame ==
    /\ \E ty \in FrameTypes, sn \in 1..MaxSeq :
          tail' = IF ty = CastTarget(tail.kind)
                    THEN [tail EXCEPT !.oFrame = 1, !.oSeq = sn,
                                      !.newFrame = TRUE,
                                      !.last = "doProcessFrame",
                                      !.pRet = TRUE,
                                      !.since = IF tail.since < MaxSince
                                                  THEN tail.since + 1
                                                  ELSE tail.since,
                                      !.lastOk = sn]
                    ELSE [tail EXCEPT !.last = "doProcessFrame",
                                      !.pRet = FALSE]
    /\ tailRest

T_Extract_keepLatch ==
    /\ tail' = IF tail.newFrame
                 THEN [tail EXCEPT !.xRet = tail.oFrame, !.xSeq = tail.oSeq,
                                   !.last = "extract",
                                   !.xSince = tail.since, !.since = 0]
                 ELSE [tail EXCEPT !.xRet = NULL, !.xSeq = 0,
                                   !.last = "extract",
                                   !.xSince = tail.since, !.since = 0]
    /\ tailRest

\* extract(): hands out oFrame and clears newFrame, or returns NULL
T_Extract ==
    /\ tail' = IF tail.newFrame
                 THEN [tail EXCEPT !.newFrame = FALSE,
                                   !.xRet = tail.oFrame, !.xSeq = tail.oSeq,
                                   !.last = "extract",
                                   !.xSince = tail.since, !.since = 0]
                 ELSE [tail EXCEPT !.xRet = NULL, !.xSeq = 0,
                                   !.last = "extract",
                                   !.xSince = tail.since, !.since = 0]
    /\ tailRest

NextTail ==
    \/ T_DoProcessFrame
    \/ T_Extract

SpecTail == InitTail /\ [][NextTail]_vars

\* C20: extract() returns the stored output frame exactly when a
\* doProcessFrame call has succeeded since the previous extract() and NULL
\* otherwise (so no processed frame is handed out twice); the frame it
\* returns carries the sequence number of the most recent successful
\* doProcessFrame, also when several succeeded since the previous extract().
C20_DeliveryLatch ==
    tail.last = "extract" =>
        /\ tail.xRet # NULL <=> tail.xSince >= 1
        /\ tail.xRet # NULL =>
              /\ tail.xRet = tail.oFrame
              /\ tail.xSeq = tail.lastOk
        /\ ~tail.newFrame

\* two frames (3, then 2) processed by the audio tail before one extract()
C20_Witness ==
    /\ tail.kind = "audio"
    /\ tail.last = "extract"
    /\ tail.xSince = 2
    /\ tail.xRet # NULL
    /\ tail.xSeq = 2
    /\ tail.lastOk = 2
====
